---- MODULE Spec2Model ----
(***************************************************************************)
(* The day-keyed document store, the legacy calendar-event migration, the  *)
(* preference store, create_todo_item and the pomodoro timer, with the     *)
(* files they act on, as implemented in src-tauri/src/main.rs.             *)
(*                                                                         *)
(* Text is modelled as a sequence of one-character strings where the code  *)
(* scans it (date strings, file names); free-form text that the code only  *)
(* copies (todo text, notes, event text) is an atomic string.  A file's    *)
(* content is a text: either the pretty-printed form of a JSON value, or   *)
(* text that is no JSON document (a truncated write).                      *)
(***************************************************************************)
EXTENDS Integers, Sequences, FiniteSets, TLC

VARIABLES
    files,      \* the data directory: file name -> content
    last,       \* the command that returned last, with what it returned
    mig,        \* locals of the migrate_calendar_events_to_todos invocation
    now,        \* the last reading of the local clock (Local::now)
    nextId,     \* number of ids handed out so far by Uuid::new_v4
    hist,       \* history: what was saved last per date, whether a migration succeeded,
                \* the ids create_todo_item returned, the timers a stop found pending
    tasks       \* work in flight: save commands running side by side, spawned timer tasks

vars == <<files, last, mig, now, nextId, hist, tasks>>

---------------------------------------------------------------------------
(* Bounds of the model *)

\* longest todo list a caller passes to save_day_data
MaxTodos == 2
\* readings of the clock are 0..MaxTime
MaxTime == 1
\* the highest id that Uuid::new_v4 hands out during one behaviour
MaxIds == 5

\* how many timers are started, and the longest of them in minutes
MaxTimers == 2
MaxMinutes == 2

---------------------------------------------------------------------------
(* Characters, numbers and dates *)

Min(a, b) == IF a <= b THEN a ELSE b

DigitChars == <<"0", "1", "2", "3", "4", "5", "6", "7", "8", "9">>

IsDigit(c) == \E i \in 1..10 : DigitChars[i] = c

DigitVal(c) == (CHOOSE i \in 1..10 : DigitChars[i] = c) - 1

RECURSIVE NumVal(_)
\* the value of a sequence of digit characters
NumVal(ds) ==
    IF ds = <<>> THEN 0
    ELSE 10 * NumVal(SubSeq(ds, 1, Len(ds) - 1)) + DigitVal(ds[Len(ds)])

RECURSIVE Digits(_)
\* the decimal digits of a natural number, without padding
Digits(n) ==
    IF n < 10 THEN <<DigitChars[n + 1]>>
    ELSE Digits(n \div 10) \o <<DigitChars[(n % 10) + 1]>>

\* {:0w} formatting: zero-padded to at least w digits
Pad(n, w) ==
    LET ds == Digits(n)
    IN  [i \in 1..(IF Len(ds) < w THEN w - Len(ds) ELSE 0) |-> "0"] \o ds

\* scan::number(s, 1, max): how many leading digits are consumed (0: none)
LeadDigits(s, max) ==
    LET ok == {i \in 0..Min(Len(s), max) : \A j \in 1..i : IsDigit(s[j])}
    IN  CHOOSE i \in ok : \A k \in ok : k <= i

Rest(s, n) == SubSeq(s, n + 1, Len(s))

IsLeap(y) == (y % 4 = 0 /\ y % 100 # 0) \/ y % 400 = 0

DaysInMonth(y, m) ==
    IF m = 2 THEN (IF IsLeap(y) THEN 29 ELSE 28)
    ELSE IF m \in {4, 6, 9, 11} THEN 30 ELSE 31

NoDate == [y |-> 0, m |-> 0, d |-> 0]

\* NaiveDate::parse_from_str(s, "%Y-%m-%d"): a year of 1 to 4 digits, "-", a
\* month of 1 or 2 digits, "-", a day of 1 or 2 digits, nothing after; then the
\* fields must name a day of the calendar.  (Signs and blanks, which the
\* library also accepts before a number, are not in the model's alphabet.)
ParseDate(s) ==
    LET n1 == LeadDigits(s, 4)
        r1 == Rest(s, n1)
        r2 == Rest(r1, 1)
        n2 == LeadDigits(r2, 2)
        r3 == Rest(r2, n2)
        r4 == Rest(r3, 1)
        n3 == LeadDigits(r4, 2)
        r5 == Rest(r4, n3)
        y  == NumVal(SubSeq(s, 1, n1))
        m  == NumVal(SubSeq(r2, 1, n2))
        d  == NumVal(SubSeq(r4, 1, n3))
        shaped ==
            /\ n1 >= 1 /\ Len(r1) >= 1 /\ r1[1] = "-"
            /\ n2 >= 1 /\ Len(r3) >= 1 /\ r3[1] = "-"
            /\ n3 >= 1 /\ r5 = <<>>
    IN  IF shaped /\ m \in 1..12 /\ d \in 1..DaysInMonth(y, m)
        THEN [ok |-> TRUE, date |-> [y |-> y, m |-> m, d |-> d]]
        ELSE [ok |-> FALSE, date |-> NoDate]

\* date.format("%Y-%m-%d"), for the years 0..9999
FormatDate(date) ==
    Pad(date.y, 4) \o <<"-">> \o Pad(date.m, 2) \o <<"-">> \o Pad(date.d, 2)

---------------------------------------------------------------------------
(* JSON values and file texts *)

JStr(x)  == [t |-> "str",  v |-> x]
JBool(b) == [t |-> "bool", v |-> b]
JArr(s)  == [t |-> "arr",  v |-> s]
JObj(f)  == [t |-> "obj",  v |-> f]

\* a path at which no file exists
Absent == [kind |-> "absent"]

\* what a file holds when a write stopped after File::create truncated it: a
\* strict prefix (possibly empty) of a JSON document, which is no JSON document
Truncated == [kind |-> "truncated"]

\* serde_json::to_string_pretty
JsonText(j) == [kind |-> "json", val |-> j]

\* serde_json::from_str into a JSON value
ParseJson(text) ==
    IF text.kind = "json" THEN [ok |-> TRUE, val |-> text.val]
    ELSE [ok |-> FALSE, val |-> JObj(<<>>)]

\* DateTime<Local> as serde writes it (a string) and reads it back
FormatTime(t) == Pad(t, 2)

ParseTime(s) ==
    IF s # <<>> /\ \A i \in 1..Len(s) : IsDigit(s[i])
    THEN [ok |-> TRUE, val |-> NumVal(s)]
    ELSE [ok |-> FALSE, val |-> 0]

---------------------------------------------------------------------------
(* TodoItem and DayData, and their derived Serialize / Deserialize *)

TodoItem(id, text, completed, created_at, move_to_next_day, notes) ==
    [id |-> id, text |-> text, completed |-> completed, created_at |-> created_at,
     move_to_next_day |-> move_to_next_day, notes |-> notes]

DayData(date, todos, notes) == [date |-> date, todos |-> todos, notes |-> notes]

NoTodo == TodoItem(0, "", FALSE, 0, FALSE, "")

NoDay == DayData(NoDate, <<>>, "")

\* a serializer that leaves the item's notes out
TodoToJsonSkippingNotes(t) ==
    JObj([id |-> JStr(t.id), text |-> JStr(t.text), completed |-> JBool(t.completed),
          created_at |-> JStr(FormatTime(t.created_at)),
          move_to_next_day |-> JBool(t.move_to_next_day)])

TodoToJson(t) ==
    JObj([id |-> JStr(t.id), text |-> JStr(t.text), completed |-> JBool(t.completed),
          created_at |-> JStr(FormatTime(t.created_at)),
          move_to_next_day |-> JBool(t.move_to_next_day), notes |-> JStr(t.notes)])

TodoRequired == {"id", "text", "completed", "created_at", "move_to_next_day"}

\* a Deserialize for TodoItem without #[serde(default)]: notes is required
TodoFromJsonNotesRequired(j) ==
    LET shaped ==
            /\ j.t = "obj"
            /\ (TodoRequired \cup {"notes"}) \subseteq DOMAIN j.v
            /\ j.v.id.t = "str" /\ j.v.text.t = "str"
            /\ j.v.completed.t = "bool" /\ j.v.move_to_next_day.t = "bool"
            /\ j.v.created_at.t = "str" /\ ParseTime(j.v.created_at.v).ok
            /\ j.v.notes.t = "str"
    IN  IF shaped
        THEN [ok |-> TRUE,
              val |-> TodoItem(j.v.id.v, j.v.text.v, j.v.completed.v,
                               ParseTime(j.v.created_at.v).val, j.v.move_to_next_day.v,
                               j.v.notes.v)]
        ELSE [ok |-> FALSE, val |-> NoTodo]

\* Deserialize for TodoItem: every field but notes is required; notes has
\* #[serde(default)]; unknown fields are ignored
TodoFromJson(j) ==
    LET shaped ==
            /\ j.t = "obj"
            /\ TodoRequired \subseteq DOMAIN j.v
            /\ j.v.id.t = "str" /\ j.v.text.t = "str"
            /\ j.v.completed.t = "bool" /\ j.v.move_to_next_day.t = "bool"
            /\ j.v.created_at.t = "str" /\ ParseTime(j.v.created_at.v).ok
            /\ ("notes" \in DOMAIN j.v => j.v.notes.t = "str")
    IN  IF shaped
        THEN [ok |-> TRUE,
              val |-> TodoItem(j.v.id.v, j.v.text.v, j.v.completed.v,
                               ParseTime(j.v.created_at.v).val, j.v.move_to_next_day.v,
                               IF "notes" \in DOMAIN j.v THEN j.v.notes.v ELSE "")]
        ELSE [ok |-> FALSE, val |-> NoTodo]

DayToJson(day) ==
    JObj([date |-> JStr(FormatDate(day.date)),
          todos |-> JArr([i \in 1..Len(day.todos) |-> TodoToJson(day.todos[i])]),
          notes |-> JStr(day.notes)])

\* Deserialize for DayData: date, todos and notes are all required
DayFromJson(j) ==
    LET shaped ==
            /\ j.t = "obj"
            /\ {"date", "todos", "notes"} \subseteq DOMAIN j.v
            /\ j.v.date.t = "str" /\ ParseDate(j.v.date.v).ok
            /\ j.v.notes.t = "str"
            /\ j.v.todos.t = "arr"
            /\ \A i \in 1..Len(j.v.todos.v) : TodoFromJson(j.v.todos.v[i]).ok
    IN  IF shaped
        THEN [ok |-> TRUE,
              val |-> DayData(ParseDate(j.v.date.v).date,
                              [i \in 1..Len(j.v.todos.v) |-> TodoFromJson(j.v.todos.v[i]).val],
                              j.v.notes.v)]
        ELSE [ok |-> FALSE, val |-> NoDay]

\* serde_json::to_string_pretty(&day_data)
SerializeDay(day) == JsonText(DayToJson(day))

\* serde_json::from_str::<DayData>(&content)
DeserializeDay(text) ==
    IF ParseJson(text).ok THEN DayFromJson(ParseJson(text).val)
    ELSE [ok |-> FALSE, val |-> NoDay]

\* a parse that takes whatever is not a map of lists for the empty map
DeserializeEventsLenient(text) == [ok |-> TRUE, val |-> <<>>]

\* serde_json::from_str::<HashMap<String, Vec<String>>>(&file_content): an
\* object whose every value is an array of strings
DeserializeEvents(text) ==
    LET j == ParseJson(text).val
        shaped ==
            /\ ParseJson(text).ok
            /\ j.t = "obj"
            /\ \A k \in DOMAIN j.v :
                /\ j.v[k].t = "arr"
                /\ \A i \in 1..Len(j.v[k].v) : j.v[k].v[i].t = "str"
    IN  IF shaped
        THEN [ok |-> TRUE,
              val |-> [k \in DOMAIN j.v |-> [i \in 1..Len(j.v[k].v) |-> j.v[k].v[i].v]]]
        ELSE [ok |-> FALSE, val |-> <<>>]

---------------------------------------------------------------------------
(* The data directory *)

EventsFile == <<"calendar_events.json">>
BackupFile == <<"calendar_events.json.backup">>
ZoomFile   == <<"zoom_level.json">>
DarkFile   == <<"dark_mode.json">>

\* PathBuf::from(data_dir).join(format!("{}.json", date.format("%Y-%m-%d")))
DayPath(date) == FormatDate(date) \o <<".json">>

\* the existence check left out: every path is taken to exist
ExistsAssumed(fs, p) == TRUE

\* Path::exists
Exists(fs, p) == fs[p] # Absent

\* fs::write(path, text) is File::create, which truncates an existing file,
\* then write_all.  It ends in one of three ways: the text is written; the file
\* could not be opened and is as before; the file was opened and truncated and
\* the write stopped before the whole text was out.
WriteOutcomes == {"written", "not_opened", "cut_short"}

\* a write after which the file written is the only one in the directory
FsWriteAlone(fs, p, text, outcome) ==
    CASE outcome = "written"   -> [q \in DOMAIN fs |-> IF q = p THEN text ELSE Absent]
      [] outcome = "cut_short" -> [fs EXCEPT ![p] = Truncated]
      [] OTHER                 -> fs

FsWrite(fs, p, text, outcome) ==
    CASE outcome = "written"   -> [fs EXCEPT ![p] = text]
      [] outcome = "cut_short" -> [fs EXCEPT ![p] = Truncated]
      [] OTHER                 -> fs

\* a copy in place of the rename: `from` stays
FsCopy(fs, from, to) == [fs EXCEPT ![to] = fs[from]]

\* a rename that takes the dark-mode preference along
FsRenameSweeping(fs, from, to) ==
    [fs EXCEPT ![to] = fs[from], ![from] = Absent, ![DarkFile] = Absent]

\* fs::rename(from, to): replaces `to`; all or nothing
FsRename(fs, from, to) == [fs EXCEPT ![to] = fs[from], ![from] = Absent]

---------------------------------------------------------------------------
(* Inputs: the date strings, records and legacy files the model draws from *)

Str15      == <<"2", "0", "2", "4", "-", "0", "1", "-", "1", "5">>
Str15Short == <<"2", "0", "2", "4", "-", "1", "-", "1", "5">>
Str16      == <<"2", "0", "2", "4", "-", "0", "1", "-", "1", "6">>
StrInvalid == <<"i", "n", "v", "a", "l", "i", "d", "-", "d", "a", "t", "e">>

\* the `date` arguments passed to load_day_data
StrNoDay   == <<"2", "0", "2", "3", "-", "0", "2", "-", "2", "9">>
DateInputs == {Str15, Str15Short, Str16, StrInvalid, StrNoDay}

Date15 == [y |-> 2024, m |-> 1, d |-> 15]
Date16 == [y |-> 2024, m |-> 1, d |-> 16]
Dates  == {Date15, Date16}

\* todo items created in earlier sessions (with the old-schema item, the ids
\* 1..3 are taken)
TodoA == TodoItem(1, "Existing todo", TRUE, 0, FALSE, "")
TodoB == TodoItem(2, "", FALSE, 0, TRUE, "item notes")
SampleTodos == {TodoA, TodoB}

TodoSeqs(n) == UNION {[1..k -> SampleTodos] : k \in 0..n}

\* the `day_data` arguments passed to save_day_data beside a migration
FewSaveInputs == {DayData(d, <<TodoB>>, "Saved notes") : d \in Dates}

\* the `day_data` arguments passed to save_day_data in the store specification:
\* every list of up to MaxTodos sample items for one date, a single record
\* for the other
SaveInputs ==
    {DayData(Date15, ts, ns) : ts \in TodoSeqs(MaxTodos), ns \in {"", "Test notes"}}
        \cup FewSaveInputs

ExistingDay(d) == DayData(d, <<TodoA>>, "Existing notes")

\* a day file written before TodoItem had its notes field
OldSchemaText(d) ==
    JsonText(JObj([date |-> JStr(FormatDate(d)),
                   todos |-> JArr(<<JObj([id |-> JStr(3), text |-> JStr("Old todo"),
                                         completed |-> JBool(TRUE),
                                         created_at |-> JStr(FormatTime(0)),
                                         move_to_next_day |-> JBool(FALSE)])>>),
                   notes |-> JStr("Old notes")]))

\* what a day file may hold when the program starts
InitDayTexts(d) == {Absent, SerializeDay(ExistingDay(d)), OldSchemaText(d)}

\* a day file that is JSON but no DayData: the day's notes field is missing
MissingNotesText(d) ==
    JsonText(JObj([date |-> JStr(FormatDate(d)), todos |-> JArr(<<>>)]))

\* contents of a day file that are not a serialized DayData
CorruptDayTexts(d) == {Truncated, JsonText(JArr(<<>>)), MissingNotesText(d)}

\* calendar_events.json as the legacy version wrote it
EventsText(events) ==
    JsonText(JObj([k \in DOMAIN events |->
                      JArr([i \in 1..Len(events[k]) |-> JStr(events[k][i])])]))

LegacyMaps ==
    { <<>>,
      (Str15 :> <<"Calendar event 1", "Calendar event 2">>),
      (Str15 :> <<"Meeting at 2pm">>) @@ (Str16 :> <<"Submit report">>),
      (Str15 :> <<"Padded key">>) @@ (Str15Short :> <<"Short key">>),
      (Str16 :> <<"Good key">>) @@ (StrInvalid :> <<"Bad key">>),
      (Str16 :> <<>>) }

\* contents that are not a map from date key to list of event texts: a text
\* that is not JSON, a JSON list, a map whose value is a string
CorruptEventsTexts ==
    {Truncated, JsonText(JArr(<<>>)), JsonText(JObj((Str15 :> JStr("Not a list"))))}

\* what calendar_events.json may hold when the program starts
InitEventsTexts ==
    {Absent} \cup CorruptEventsTexts \cup {EventsText(e) : e \in LegacyMaps}

\* what calendar_events.json.backup may hold when the program starts
InitBackupTexts == {Absent, EventsText((Str16 :> <<"Older event">>))}

FileNames == {DayPath(d) : d \in Dates} \cup {EventsFile, BackupFile, ZoomFile, DarkFile}

---------------------------------------------------------------------------
(* Results of commands *)

Ok(op, arg, val)  == [op |-> op, arg |-> arg, ok |-> TRUE,  val |-> val,  err |-> <<>>]
Err(op, arg, err) == [op |-> op, arg |-> arg, ok |-> FALSE, val |-> <<>>, err |-> err]

\* no command has returned since the program (or the running migration) started
NoReturn == [op |-> "none", arg |-> <<>>, ok |-> TRUE, val |-> <<>>, err |-> <<>>]

MsgNotNeeded == <<"No calendar events file found - migration not needed">>
\* the empty file reported with the message of the missing file
MsgEmptyAsNotNeeded == MsgNotNeeded

MsgEmpty == <<"Calendar events file was empty - backed up and removed">>
MsgMigrated(count, days) ==
    <<"Successfully migrated", count, "calendar events from", days,
      "days to todos. Backup saved as calendar_events.json.backup">>

\* locals of a migration that is not running and whose return was consumed
MigIdle ==
    [pc |-> "idle", events |-> <<>>, remaining |-> {}, date_str |-> <<>>,
     day_data |-> NoDay, migrated_count |-> 0, migrated_dates |-> <<>>, pre |-> <<>>]

NoHistory == [saved |-> [d \in Dates |-> <<>>], migrated |-> FALSE,
              dark |-> <<>>, zoom |-> <<>>, created |-> {}, stopped |-> {}]

\* nothing runs beside the commands: no save is under way, no timer is pending
Callers == {1, 2}

NoCall == [pc |-> "idle", day_data |-> NoDay]

NoTasks == [saves |-> [c \in Callers |-> NoCall], timers |-> {}, emits |-> <<>>]

\* a command other than the migration starts: the record of a returned
\* migration is dropped, the locals of a running one are not touched
Forget(m) == IF m.pc = "idle" THEN MigIdle ELSE m

\* the history of saves after `path` was written by someone else or cut short
Unsave(h, path) ==
    [h EXCEPT !.saved = [d \in Dates |-> IF DayPath(d) = path THEN <<>> ELSE h.saved[d]]]

---------------------------------------------------------------------------
(* The day document store *)

ReadOutcomes == {"read", "failed"}

\* a load that answers an unparsable file with the empty record of the day
LoadResultDefaulting(fs, date, outcome) ==
    LET parsed    == ParseDate(date)
        file_path == DayPath(parsed.date)
    IN  IF ~parsed.ok THEN Err("load_day", date, <<"Invalid date format">>)
        ELSE IF Exists(fs, file_path) /\ outcome = "failed"
        THEN Err("load_day", date, <<"Failed to read file">>)
        ELSE IF Exists(fs, file_path) /\ DeserializeDay(fs[file_path]).ok
        THEN Ok("load_day", date, DeserializeDay(fs[file_path]).val)
        ELSE Ok("load_day", date, DayData(parsed.date, <<>>, ""))

\* the body of load_day_data, for a read that ends as `outcome`
LoadResult(fs, date, outcome) ==
    LET parsed    == ParseDate(date)
        file_path == DayPath(parsed.date)
    IN  IF ~parsed.ok THEN Err("load_day", date, <<"Invalid date format">>)
        ELSE IF Exists(fs, file_path)
        THEN IF outcome = "failed" THEN Err("load_day", date, <<"Failed to read file">>)
             ELSE IF ~DeserializeDay(fs[file_path]).ok
             THEN Err("load_day", date, <<"Failed to parse JSON">>)
             ELSE Ok("load_day", date, DeserializeDay(fs[file_path]).val)
        ELSE Ok("load_day", date, DayData(parsed.date, <<>>, ""))

\* a load that creates the file of a day that has none
LoadDayCreating(date) ==
    \E outcome \in ReadOutcomes :
        /\ last' = LoadResult(files, date, outcome)
        /\ files' = IF last'.ok /\ ~Exists(files, DayPath(last'.val.date))
                    THEN [files EXCEPT ![DayPath(last'.val.date)] = SerializeDay(last'.val)]
                    ELSE files
        /\ mig' = Forget(mig)
        /\ UNCHANGED <<now, nextId, hist, tasks>>

LoadDay(date) ==
    \E outcome \in ReadOutcomes :
        /\ last' = LoadResult(files, date, outcome)
        /\ mig' = Forget(mig)
        /\ UNCHANGED <<files, now, nextId, hist, tasks>>

\* a save that keeps the todos the file already holds, after the new ones
SaveFilesMerging(fs, day_data, outcome) ==
    LET old    == DeserializeDay(fs[DayPath(day_data.date)])
        merged == IF old.ok THEN [day_data EXCEPT !.todos = day_data.todos \o old.val.todos]
                  ELSE day_data
    IN  FsWrite(fs, DayPath(day_data.date), SerializeDay(merged), outcome)

\* a save that writes every record to the file of one date
SaveFilesAtOneDate(fs, day_data, outcome) ==
    FsWrite(fs, DayPath(Date15), SerializeDay(day_data), outcome)

\* the directory after save_day_data, for a write that ends as `outcome`
SaveFiles(fs, day_data, outcome) ==
    FsWrite(fs, DayPath(day_data.date), SerializeDay(day_data), outcome)

SaveDay(day_data) ==
    \E outcome \in WriteOutcomes :
        /\ files' = SaveFiles(files, day_data, outcome)
        /\ last' = IF outcome = "written" THEN Ok("save_day", day_data, <<>>)
                   ELSE Err("save_day", day_data, <<"Failed to write file">>)
        /\ hist' = CASE outcome = "written" ->
                            [hist EXCEPT !.saved[day_data.date] = <<day_data>>]
                     [] outcome = "cut_short" -> Unsave(hist, DayPath(day_data.date))
                     [] OTHER -> hist
        /\ mig' = Forget(mig)
        /\ UNCHANGED <<now, nextId, tasks>>

---------------------------------------------------------------------------
(* save_day_data by two callers at once: fs::write step by step *)

\* the file File::create leaves: opened and truncated to no bytes
Empty == [kind |-> "empty"]

\* the beginning of one text followed by the rest of a longer one: the bytes
\* of two writes in one file, which is no JSON document (trailing characters)
Mixed == [kind |-> "mixed"]

\* the length of a text, counted in JSON values: it orders the records of
\* ConcurrentSaveInputs as their byte lengths do
JsonSize(j) ==
    LET RECURSIVE Size(_)
        RECURSIVE SumOver(_, _)
        SumOver(f, ks) == IF ks = {} THEN 0
                          ELSE LET k == CHOOSE x \in ks : TRUE
                               IN  Size(f[k]) + SumOver(f, ks \ {k})
        Size(x) == IF x.t \in {"arr", "obj"} THEN 1 + SumOver(x.v, DOMAIN x.v)
                   ELSE 1
    IN  Size(j)

TextSize(text) == IF text.kind = "json" THEN JsonSize(text.val) ELSE 0

\* write_all(text) through a descriptor whose offset is 0, onto a file that
\* holds `old`: the bytes of `old` beyond the length of `text` stay.  A file
\* cut short or mixed has a length the model does not know.
WriteAll(old, text) ==
    CASE old.kind \in {"empty", "absent"} -> {text}
      [] old.kind = "json" -> IF TextSize(old) <= TextSize(text) THEN {text} ELSE {Mixed}
      [] OTHER -> {text, Mixed}

\* write_all that stops before the whole text is out (possibly before any byte)
WriteAllCutShort(old) ==
    IF old.kind = "empty" THEN {Truncated} ELSE {old, Mixed}

\* the records two callers save to the same date: of three different lengths
ConcurrentSaveInputs ==
    {DayData(Date15, <<>>, ""),
     DayData(Date15, <<TodoB>>, "Saved notes"),
     DayData(Date15, <<TodoB, TodoA>>, "Test notes")}

OpenOutcomes == {"opened", "not_opened"}

\* save_day_data up to File::create inside fs::write: the path, the
\* serialization (which cannot fail for a DayData), the open that truncates
SaveOpen(c, day_data) ==
    /\ tasks.saves[c].pc = "idle"
    /\ \E outcome \in OpenOutcomes :
        IF outcome = "opened"
        THEN /\ files' = [files EXCEPT ![DayPath(day_data.date)] = Empty]
             /\ tasks' = [tasks EXCEPT !.saves[c] = [pc |-> "opened", day_data |-> day_data]]
             /\ UNCHANGED last
        ELSE /\ tasks' = [tasks EXCEPT !.saves[c] = [pc |-> "err", day_data |-> day_data]]
             /\ last' = Err("save_day", day_data, <<"Failed to write file">>)
             /\ UNCHANGED files
    /\ UNCHANGED <<mig, now, nextId, hist>>

\* the rest of fs::write, write_all, and the return
SaveWrite(c) ==
    /\ tasks.saves[c].pc = "opened"
    /\ LET day_data  == tasks.saves[c].day_data
           file_path == DayPath(day_data.date)
       IN  \/ /\ \E text \in WriteAll(files[file_path], SerializeDay(day_data)) :
                    files' = [files EXCEPT ![file_path] = text]
              /\ tasks' = [tasks EXCEPT !.saves[c].pc = "ok"]
              /\ last' = Ok("save_day", day_data, <<>>)
           \/ /\ \E text \in WriteAllCutShort(files[file_path]) :
                    files' = [files EXCEPT ![file_path] = text]
              /\ tasks' = [tasks EXCEPT !.saves[c].pc = "err"]
              /\ last' = Err("save_day", day_data, <<"Failed to write file">>)
    /\ UNCHANGED <<mig, now, nextId, hist>>

---------------------------------------------------------------------------
(* create_todo_item *)

\* an id generator that hands out the id it handed out last
StaleId(issued) == issued

\* Uuid::new_v4().to_string(): an id no earlier call has returned, `issued`
\* being the number of ids handed out so far
NewId(issued) == issued + 1

\* the `text` arguments passed to create_todo_item
TodoTexts == {"", "Buy milk"}

CreateTodoItem(text) ==
    /\ nextId < MaxIds
    /\ \E reading \in now..MaxTime :
        /\ now' = reading
        /\ last' = Ok("create_todo_item", text,
                      TodoItem(NewId(nextId), text, FALSE, reading, FALSE, ""))
    /\ nextId' = nextId + 1
    /\ hist' = [hist EXCEPT !.created = @ \cup {last'.val.id}]
    /\ mig' = Forget(mig)
    /\ UNCHANGED <<files, tasks>>

---------------------------------------------------------------------------
(* The pomodoro timer: start_pomodoro_timer and stop_pomodoro_timer *)

\* the `duration_minutes` and `task_text` arguments of start_pomodoro_timer
Minutes == 0..MaxMinutes

TaskTexts == {"Write report", ""}

\* the timers started so far: each is pending or has called window.emit
TimersStarted(t) == Cardinality(t.timers) + Len(t.emits)

\* start_pomodoro_timer: tokio::spawn hands the task to the runtime, where it
\* sleeps duration_minutes * 60 seconds (time is counted in minutes); the
\* command returns at once
StartTimer(duration_minutes, task_text) ==
    /\ TimersStarted(tasks) < MaxTimers
    /\ tasks' = [tasks EXCEPT !.timers = @ \cup
                    {[id |-> TimersStarted(tasks) + 1, task_text |-> task_text,
                      remaining |-> duration_minutes]}]
    /\ last' = Ok("start_pomodoro_timer",
                  [duration_minutes |-> duration_minutes, task_text |-> task_text], <<>>)
    /\ mig' = Forget(mig)
    /\ UNCHANGED <<files, now, nextId, hist>>

\* stop_pomodoro_timer: "just acknowledge the stop".  The history notes the
\* timers that were still sleeping when it returned.
StopTimer ==
    /\ last' = Ok("stop_pomodoro_timer", <<>>, <<>>)
    /\ hist' = [hist EXCEPT !.stopped = @ \cup {t.id : t \in {u \in tasks.timers : u.remaining > 0}}]
    /\ mig' = Forget(mig)
    /\ UNCHANGED <<files, now, nextId, tasks>>

\* a minute passes for every sleeping task
Tick ==
    /\ \E t \in tasks.timers : t.remaining > 0
    /\ tasks' = [tasks EXCEPT !.timers =
                    {[t EXCEPT !.remaining = IF @ > 0 THEN @ - 1 ELSE 0] : t \in tasks.timers}]
    /\ UNCHANGED <<files, last, mig, now, nextId, hist>>

EmitOutcomes == {"emitted", "failed"}

\* a task that reports a failed emit as the result of the command
TimerFireReporting(t) ==
    /\ t \in tasks.timers
    /\ t.remaining = 0
    /\ \E outcome \in EmitOutcomes :
        /\ tasks' = [tasks EXCEPT
                        !.timers = @ \ {t},
                        !.emits = Append(@, [id |-> t.id, payload |-> t.task_text,
                                             ok |-> outcome = "emitted"])]
        /\ last' = IF outcome = "emitted" THEN last
                   ELSE Err("start_pomodoro_timer", <<>>, <<"Failed to emit">>)
    /\ UNCHANGED <<files, mig, now, nextId, hist>>

\* the spawned task after its sleep: window.emit("pomodoro-complete",
\* &task_text), whose error is dropped, and the end of the task
TimerFire(t) ==
    /\ t \in tasks.timers
    /\ t.remaining = 0
    /\ \E outcome \in EmitOutcomes :
        tasks' = [tasks EXCEPT
                    !.timers = @ \ {t},
                    !.emits = Append(@, [id |-> t.id, payload |-> t.task_text,
                                         ok |-> outcome = "emitted"])]
    /\ UNCHANGED <<files, last, mig, now, nextId, hist>>

---------------------------------------------------------------------------
(* The legacy migration: migrate_calendar_events_to_todos *)

RenameOutcomes == {"renamed", "failed"}

\* the readings of Local::now() while n todo items are built, one per item:
\* none is earlier than the one before it
ClockReadings(n, from) ==
    {r \in [1..n -> from..MaxTime] : \A i \in 1..n : \A j \in i..n : r[i] <= r[j]}

\* the todo items built from one key's event list (the closure of the map())
NewTodos(event_list, firstId, readings) ==
    [i \in 1..Len(event_list) |->
        TodoItem(firstId + i, event_list[i], FALSE, readings[i], FALSE, "")]

\* the new items put after the existing ones
MergeAppending(day_data, new_todos) ==
    [day_data EXCEPT !.todos = day_data.todos \o new_todos]

\* new_todos.extend(day_data.todos); day_data.todos = new_todos
Merge(day_data, new_todos) == [day_data EXCEPT !.todos = new_todos \o day_data.todos]

TotalEvents(events) ==
    LET RECURSIVE Sum(_)
        Sum(ks) == IF ks = {} THEN 0
                   ELSE LET k == CHOOSE x \in ks : TRUE
                        IN  Len(events[k]) + Sum(ks \ {k})
    IN  Sum(DOMAIN events)

\* the invocation returns: its locals stay readable until the next command
Returned(m) == [m EXCEPT !.pc = "idle"]

\* from the call to the first iteration of the loop, or to an early return
MigrateStart ==
    /\ mig.pc = "idle"
    /\ UNCHANGED <<now, nextId, tasks>>
    /\ IF ~Exists(files, EventsFile)
       THEN /\ last' = Ok("migrate", <<>>, MsgNotNeeded)
            /\ mig' = MigIdle
            /\ UNCHANGED <<files, hist>>
       ELSE \E outcome \in ReadOutcomes :
            LET events == DeserializeEvents(files[EventsFile])
            IN  IF outcome = "failed"
                THEN /\ last' = Err("migrate", <<>>, <<"Failed to read calendar events file">>)
                     /\ mig' = MigIdle
                     /\ UNCHANGED <<files, hist>>
                ELSE IF ~events.ok
                THEN /\ last' = Err("migrate", <<>>, <<"Failed to parse calendar events">>)
                     /\ mig' = MigIdle
                     /\ UNCHANGED <<files, hist>>
                ELSE IF DOMAIN events.val = {}
                THEN \E renamed \in RenameOutcomes :
                     /\ mig' = MigIdle
                     /\ IF renamed = "renamed"
                        THEN /\ files' = FsRename(files, EventsFile, BackupFile)
                             /\ last' = Ok("migrate", <<>>, MsgEmpty)
                             /\ hist' = [hist EXCEPT !.migrated = TRUE]
                        ELSE /\ last' = Err("migrate", <<>>,
                                            <<"Failed to backup empty calendar events file">>)
                             /\ UNCHANGED <<files, hist>>
                ELSE /\ nextId + TotalEvents(events.val) <= MaxIds
                     /\ mig' = [pc |-> "loop", events |-> events.val,
                                remaining |-> DOMAIN events.val, date_str |-> <<>>,
                                day_data |-> NoDay, migrated_count |-> 0,
                                migrated_dates |-> <<>>, pre |-> files]
                     /\ last' = NoReturn
                     /\ UNCHANGED <<files, hist>>

\* the loop left after its first iteration
LoopDoneEarly == mig.remaining = {} \/ mig.migrated_dates # <<>>

\* the for loop has yielded every key of the map
LoopDone == mig.remaining = {}

\* one iteration of `for (date_str, event_list) in events`, up to the
\* serialization of the merged record; a HashMap yields its keys in any order
MigrateRead ==
    /\ mig.pc = "loop"
    /\ ~LoopDone
    /\ UNCHANGED <<files, hist, tasks>>
    /\ \E date_str \in mig.remaining : \E outcome \in ReadOutcomes :
        LET parsed     == ParseDate(date_str)
            file_path  == DayPath(parsed.date)
            event_list == mig.events[date_str]
            loaded     == IF Exists(files, file_path) THEN DeserializeDay(files[file_path])
                          ELSE [ok |-> TRUE, val |-> DayData(parsed.date, <<>>, "")]
            abort(err) == /\ last' = Err("migrate", <<>>, err)
                          /\ mig' = Returned([mig EXCEPT !.date_str = date_str])
                          /\ UNCHANGED <<now, nextId>>
        IN  IF ~parsed.ok
            THEN abort(<<"Invalid date format in calendar events", date_str>>)
            ELSE IF Exists(files, file_path) /\ outcome = "failed"
            THEN abort(<<"Failed to read day file">>)
            ELSE IF ~loaded.ok
            THEN abort(<<"Failed to parse day data">>)
            ELSE \E readings \in ClockReadings(Len(event_list), now) :
                 LET new_todos == NewTodos(event_list, nextId, readings)
                 IN  /\ mig' = [mig EXCEPT
                                  !.pc = "write",
                                  !.date_str = date_str,
                                  !.remaining = mig.remaining \ {date_str},
                                  !.migrated_count = mig.migrated_count + Len(new_todos),
                                  !.day_data = Merge(loaded.val, new_todos)]
                     /\ nextId' = nextId + Len(event_list)
                     /\ now' = IF event_list = <<>> THEN now
                               ELSE readings[Len(event_list)]
                     /\ UNCHANGED last

\* a write that merges the new todos into the record the file holds by then,
\* not into the one read earlier in the iteration
MigrateWriteRereading ==
    /\ mig.pc = "write"
    /\ UNCHANGED <<now, nextId, tasks>>
    /\ \E outcome \in WriteOutcomes :
        LET date      == ParseDate(mig.date_str).date
            file_path == DayPath(date)
            held      == IF Exists(files, file_path) THEN DeserializeDay(files[file_path])
                         ELSE [ok |-> TRUE, val |-> DayData(date, <<>>, "")]
            new_todos == SubSeq(mig.day_data.todos, 1, Len(mig.events[mig.date_str]))
            merged    == IF held.ok THEN Merge(held.val, new_todos) ELSE mig.day_data
        IN  /\ files' = FsWrite(files, file_path, SerializeDay(merged), outcome)
            /\ hist' = IF outcome = "not_opened" THEN hist ELSE Unsave(hist, file_path)
            /\ IF outcome = "written"
               THEN /\ mig' = [mig EXCEPT
                                 !.pc = "loop",
                                 !.migrated_dates = Append(mig.migrated_dates, mig.date_str)]
                    /\ UNCHANGED last
               ELSE /\ mig' = Returned(mig)
                    /\ last' = Err("migrate", <<>>, <<"Failed to write day file">>)

\* the same iteration from fs::write to migrated_dates.push
MigrateWrite ==
    /\ mig.pc = "write"
    /\ UNCHANGED <<now, nextId, tasks>>
    /\ \E outcome \in WriteOutcomes :
        LET file_path == DayPath(ParseDate(mig.date_str).date)
        IN  /\ files' = FsWrite(files, file_path, SerializeDay(mig.day_data), outcome)
            /\ hist' = IF outcome = "not_opened" THEN hist ELSE Unsave(hist, file_path)
            /\ IF outcome = "written"
               THEN /\ mig' = [mig EXCEPT
                                 !.pc = "loop",
                                 !.migrated_dates = Append(mig.migrated_dates, mig.date_str)]
                    /\ UNCHANGED last
               ELSE /\ mig' = Returned(mig)
                    /\ last' = Err("migrate", <<>>, <<"Failed to write day file">>)

\* after the loop: the backup, and the return
MigrateFinish ==
    /\ mig.pc = "loop"
    /\ LoopDone
    /\ UNCHANGED <<now, nextId, tasks>>
    /\ mig' = Returned(mig)
    /\ \E renamed \in RenameOutcomes :
        IF renamed = "renamed"
        THEN /\ files' = FsRename(files, EventsFile, BackupFile)
             /\ last' = Ok("migrate", <<>>,
                           MsgMigrated(mig.migrated_count, Len(mig.migrated_dates)))
             /\ hist' = [hist EXCEPT !.migrated = TRUE]
        ELSE /\ last' = Err("migrate", <<>>, <<"Failed to backup calendar events file">>)
             /\ UNCHANGED <<files, hist>>

---------------------------------------------------------------------------
(* The preference store: zoom level and dark mode *)

\* const MIN_ZOOM: f64 = 0.5 and const MAX_ZOOM: f64 = 3.0, counted in tenths
MIN_ZOOM == 5
MAX_ZOOM == 30

\* the literal 1.0 of load_zoom_preference_from_path, in tenths
DefaultZoom == 10

\* f64: the finite values the model uses are whole tenths; the others are
\* NaN and the two infinities
F64(n) == [kind |-> "finite", v |-> n]
NaN    == [kind |-> "nan",  v |-> 0]
PosInf == [kind |-> "inf",  v |-> 0]
NegInf == [kind |-> "ninf", v |-> 0]

\* a test for NaN only
IsNotNaN(z) == z.kind # "nan"

\* f64::is_finite
IsFinite(z) == z.kind = "finite"

\* a clamp of the upper side only
ClampAbove(z, min, max) ==
    CASE z.kind = "nan"  -> z
      [] z.kind = "inf"  -> F64(max)
      [] z.kind = "ninf" -> z
      [] z.v > max       -> F64(max)
      [] OTHER           -> z

\* f64::clamp(min, max)
Clamp(z, min, max) ==
    CASE z.kind = "nan"  -> z
      [] z.kind = "inf"  -> F64(max)
      [] z.kind = "ninf" -> F64(min)
      [] z.v < min       -> F64(min)
      [] z.v > max       -> F64(max)
      [] OTHER           -> z

\* a JSON number, kept as its text
JNum(text) == [t |-> "num", v |-> text]

\* serde_json writes a finite f64: sign, integer digits, ".", fraction
FormatF64(n) ==
    LET mag == IF n < 0 THEN 0 - n ELSE n
    IN  (IF n < 0 THEN <<"-">> ELSE <<>>)
            \o Digits(mag \div 10) \o <<".">> \o Digits(mag % 10)

\* Value::as_f64 of a JSON number: sign, integer digits, an optional fraction
\* of one digit; in tenths
ParseF64(s) ==
    LET neg   == s # <<>> /\ s[1] = "-"
        body  == IF neg THEN Rest(s, 1) ELSE s
        n1    == LeadDigits(body, Len(body))
        frac  == Rest(body, n1)
        mag   == 10 * NumVal(SubSeq(body, 1, n1))
                    + (IF Len(frac) >= 2 THEN DigitVal(frac[2]) ELSE 0)
    IN  IF neg THEN 0 - mag ELSE mag

\* serde_json::json!({ "zoom_level": validated_zoom }), to_string_pretty
SerializeZoom(z) == JsonText(JObj([zoom_level |-> JNum(FormatF64(z.v))]))

\* json.get("zoom_level").and_then(|v| v.as_f64()).unwrap_or(1.0)
ZoomFromJson(json) ==
    IF json.t = "obj" /\ "zoom_level" \in DOMAIN json.v /\ json.v["zoom_level"].t = "num"
    THEN F64(ParseF64(json.v["zoom_level"].v))
    ELSE F64(DefaultZoom)

\* a range test that lets every value pass
InRangeAlways(z) == TRUE

\* (MIN_ZOOM..=MAX_ZOOM).contains(&zoom_level)
InRange(z) == MIN_ZOOM <= z.v /\ z.v <= MAX_ZOOM

\* a load that answers a text that is not JSON with the default
LoadZoomResultDefaulting(fs, outcome) ==
    IF Exists(fs, ZoomFile) /\ outcome = "failed"
    THEN Err("load_zoom", <<>>, <<"Failed to read zoom preference file">>)
    ELSE IF Exists(fs, ZoomFile) /\ ParseJson(fs[ZoomFile]).ok
    THEN LET zoom_level == ZoomFromJson(ParseJson(fs[ZoomFile]).val)
         IN  Ok("load_zoom", <<>>, IF InRange(zoom_level) THEN zoom_level
                                   ELSE F64(DefaultZoom))
    ELSE Ok("load_zoom", <<>>, F64(DefaultZoom))

\* load_zoom_preference_from_path, for a read that ends as `outcome`
LoadZoomResult(fs, outcome) ==
    IF Exists(fs, ZoomFile)
    THEN IF outcome = "failed"
         THEN Err("load_zoom", <<>>, <<"Failed to read zoom preference file">>)
         ELSE IF ~ParseJson(fs[ZoomFile]).ok
         THEN Err("load_zoom", <<>>, <<"Failed to parse zoom preference">>)
         ELSE LET zoom_level == ZoomFromJson(ParseJson(fs[ZoomFile]).val)
              IN  Ok("load_zoom", <<>>, IF InRange(zoom_level) THEN zoom_level
                                        ELSE F64(DefaultZoom))
    ELSE Ok("load_zoom", <<>>, F64(DefaultZoom))

\* load_zoom_preference
LoadZoom ==
    \E outcome \in ReadOutcomes :
        /\ last' = LoadZoomResult(files, outcome)
        /\ mig' = Forget(mig)
        /\ UNCHANGED <<files, now, nextId, hist, tasks>>

\* save_zoom_preference, through save_zoom_preference_to_path
SaveZoom(zoom_level) ==
    /\ mig' = Forget(mig)
    /\ UNCHANGED <<now, nextId, tasks>>
    /\ IF ~IsFinite(zoom_level)
       THEN /\ last' = Err("save_zoom", zoom_level, <<"Invalid zoom level">>)
            /\ UNCHANGED <<files, hist>>
       ELSE \E outcome \in WriteOutcomes :
            LET validated_zoom == Clamp(zoom_level, MIN_ZOOM, MAX_ZOOM)
            IN  /\ files' = FsWrite(files, ZoomFile, SerializeZoom(validated_zoom), outcome)
                /\ last' = IF outcome = "written" THEN Ok("save_zoom", zoom_level, <<>>)
                           ELSE Err("save_zoom", zoom_level,
                                    <<"Failed to write zoom preference file">>)
                /\ hist' = CASE outcome = "written"   -> [hist EXCEPT !.zoom = <<zoom_level>>]
                             [] outcome = "cut_short" -> [hist EXCEPT !.zoom = <<>>]
                             [] OTHER                 -> hist

\* get_zoom_limits
GetZoomLimits ==
    /\ last' = Ok("get_zoom_limits", <<>>,
                  [min_zoom |-> F64(MIN_ZOOM), max_zoom |-> F64(MAX_ZOOM)])
    /\ mig' = Forget(mig)
    /\ UNCHANGED <<files, now, nextId, hist, tasks>>

\* a bool as an argument or a return value of a command
Bool(b) == [bool |-> b]

\* a save that stores true whatever it is given
SerializeDarkModeOn(dark_mode) == JsonText(JObj([dark_mode |-> JBool(TRUE)]))

\* serde_json::json!({ "dark_mode": dark_mode }), to_string_pretty
SerializeDarkMode(dark_mode) == JsonText(JObj([dark_mode |-> JBool(dark_mode)]))

\* a read whose default is true
DarkModeFromJsonDefaultOn(json) ==
    IF json.t = "obj" /\ "dark_mode" \in DOMAIN json.v /\ json.v["dark_mode"].t = "bool"
    THEN json.v["dark_mode"].v
    ELSE TRUE

\* json.get("dark_mode").and_then(|v| v.as_bool()).unwrap_or(false)
DarkModeFromJson(json) ==
    IF json.t = "obj" /\ "dark_mode" \in DOMAIN json.v /\ json.v["dark_mode"].t = "bool"
    THEN json.v["dark_mode"].v
    ELSE FALSE

\* load_dark_mode_preference, for a read that ends as `outcome`
LoadDarkModeResult(fs, outcome) ==
    IF Exists(fs, DarkFile)
    THEN IF outcome = "failed"
         THEN Err("load_dark_mode", <<>>, <<"Failed to read dark mode preference file">>)
         ELSE IF ~ParseJson(fs[DarkFile]).ok
         THEN Err("load_dark_mode", <<>>, <<"Failed to parse dark mode preference">>)
         ELSE Ok("load_dark_mode", <<>>, Bool(DarkModeFromJson(ParseJson(fs[DarkFile]).val)))
    ELSE Ok("load_dark_mode", <<>>, Bool(FALSE))

LoadDarkMode ==
    \E outcome \in ReadOutcomes :
        /\ last' = LoadDarkModeResult(files, outcome)
        /\ mig' = Forget(mig)
        /\ UNCHANGED <<files, now, nextId, hist, tasks>>

\* save_dark_mode_preference
SaveDarkMode(dark_mode) ==
    \E outcome \in WriteOutcomes :
        /\ files' = FsWrite(files, DarkFile, SerializeDarkMode(dark_mode), outcome)
        /\ last' = IF outcome = "written" THEN Ok("save_dark_mode", Bool(dark_mode), <<>>)
                   ELSE Err("save_dark_mode", Bool(dark_mode),
                            <<"Failed to write dark mode preference file">>)
        /\ hist' = CASE outcome = "written"   -> [hist EXCEPT !.dark = <<dark_mode>>]
                     [] outcome = "cut_short" -> [hist EXCEPT !.dark = <<>>]
                     [] OTHER                 -> hist
        /\ mig' = Forget(mig)
        /\ UNCHANGED <<now, nextId, tasks>>

\* the values save_zoom_preference is called with
ZoomInputs ==
    {F64(n) : n \in {0 - 10, 4, 5, 8, 15, 30, 31, 100}} \cup {NaN, PosInf, NegInf}

\* what zoom_level.json may hold when the program starts: nothing, a cut-short
\* text, 1.5, 10.0, the integer 2, a string, no zoom_level, a list
InitZoomTexts ==
    {Absent, Truncated, SerializeZoom(F64(15)), SerializeZoom(F64(100)),
     JsonText(JObj([zoom_level |-> JNum(<<"2">>)])),
     JsonText(JObj([zoom_level |-> JStr("large")])),
     JsonText(JObj([zoom |-> JNum(<<"2", ".", "0">>)])),
     JsonText(JArr(<<>>))}

\* what dark_mode.json may hold when the program starts: nothing, a cut-short
\* text, true, a string, no dark_mode, a list
InitDarkTexts ==
    {Absent, Truncated, SerializeDarkMode(TRUE),
     JsonText(JObj([dark_mode |-> JStr("yes")])),
     JsonText(JObj([theme |-> JStr("dark")])),
     JsonText(JArr(<<>>))}

---------------------------------------------------------------------------
(* Specifications *)

InitCommon ==
    /\ last = NoReturn
    /\ mig = MigIdle
    /\ now = 0
    /\ nextId = 3
    /\ hist = NoHistory
    /\ tasks = NoTasks

InitFiles(events, backup) ==
    \E t15 \in InitDayTexts(Date15) : \E t16 \in InitDayTexts(Date16) :
        files = (DayPath(Date15) :> t15) @@ (DayPath(Date16) :> t16)
                @@ (EventsFile :> events) @@ (BackupFile :> backup)
                @@ (ZoomFile :> Absent)
                @@ (DarkFile :> JsonText(JObj([dark_mode |-> JBool(TRUE)])))

\* The migration beside saves of day records.  Commands are issued one at a
\* time: a command starts when no migration is running.
Init ==
    /\ InitCommon
    /\ \E events \in InitEventsTexts : \E backup \in InitBackupTexts :
        InitFiles(events, backup)

Save == mig.pc = "idle" /\ \E day_data \in FewSaveInputs : SaveDay(day_data)

Next == Save \/ MigrateStart \/ MigrateRead \/ MigrateWrite \/ MigrateFinish

Spec == Init /\ [][Next]_vars

\* The store alone, with every record of SaveInputs saved
InitStore ==
    /\ InitCommon
    /\ \E t15 \in InitDayTexts(Date15) \cup {MissingNotesText(Date15)} :
       \E t16 \in InitDayTexts(Date16) :
        files = (DayPath(Date15) :> t15) @@ (DayPath(Date16) :> t16)
                @@ (EventsFile :> EventsText((Str15 :> <<"Calendar event 1">>)))
                @@ (BackupFile :> Absent) @@ (ZoomFile :> Absent)
                @@ (DarkFile :> JsonText(JObj([dark_mode |-> JBool(TRUE)])))

SaveAny == \E day_data \in SaveInputs : SaveDay(day_data)

LoadAny == \E date \in DateInputs : LoadDay(date)

NextStore == SaveAny \/ LoadAny

SpecStore == InitStore /\ [][NextStore]_vars

\* The preference store alone
InitPrefs ==
    /\ InitCommon
    /\ \E zoom \in InitZoomTexts : \E dark \in InitDarkTexts :
        files = (DayPath(Date15) :> Absent) @@ (DayPath(Date16) :> Absent)
                @@ (EventsFile :> Absent) @@ (BackupFile :> Absent)
                @@ (ZoomFile :> zoom) @@ (DarkFile :> dark)

SaveZoomAny == \E zoom_level \in ZoomInputs : SaveZoom(zoom_level)

SaveDarkModeAny == \E dark_mode \in BOOLEAN : SaveDarkMode(dark_mode)

NextPrefs == SaveZoomAny \/ LoadZoom \/ GetZoomLimits \/ SaveDarkModeAny \/ LoadDarkMode

SpecPrefs == InitPrefs /\ [][NextPrefs]_vars

---------------------------------------------------------------------------
\* Two callers that each save a record of the same date, their file
\* operations interleaved in any order, and loads of that date
InitTwoSaves ==
    /\ InitCommon
    /\ \E t15 \in {Absent, SerializeDay(ExistingDay(Date15))} :
        files = (DayPath(Date15) :> t15) @@ (DayPath(Date16) :> Absent)
                @@ (EventsFile :> Absent) @@ (BackupFile :> Absent)
                @@ (ZoomFile :> Absent) @@ (DarkFile :> Absent)

SaveOpenAny == \E c \in Callers : \E day_data \in ConcurrentSaveInputs : SaveOpen(c, day_data)

SaveWriteAny == \E c \in Callers : SaveWrite(c)

LoadSaved == LoadDay(Str15)

NextTwoSaves == SaveOpenAny \/ SaveWriteAny \/ LoadSaved

SpecTwoSaves == InitTwoSaves /\ [][NextTwoSaves]_vars

\* Todo items created beside loads and a migration of one event.  Commands
\* are issued one at a time.
InitItems ==
    /\ InitCommon
    /\ \E t15 \in InitDayTexts(Date15) :
        files = (DayPath(Date15) :> t15) @@ (DayPath(Date16) :> Absent)
                @@ (EventsFile :> EventsText((Str15 :> <<"Calendar event 1">>)))
                @@ (BackupFile :> Absent) @@ (ZoomFile :> Absent) @@ (DarkFile :> Absent)

CreateTodoAny == mig.pc = "idle" /\ \E text \in TodoTexts : CreateTodoItem(text)

LoadFirst == mig.pc = "idle" /\ LoadDay(Str15)

NextItems ==
    CreateTodoAny \/ LoadFirst \/ MigrateStart \/ MigrateRead \/ MigrateWrite \/ MigrateFinish

SpecItems == InitItems /\ [][NextItems]_vars

\* Migration invocations alone, one after the other, on a legacy file of two
\* dates: an invocation that failed may be followed by another
RetryMap == (Str15 :> <<"Calendar event 1">>) @@ (Str16 :> <<>>)

InitRetry ==
    /\ InitCommon
    /\ \E t15 \in {Absent, SerializeDay(ExistingDay(Date15))} :
       \E t16 \in {Absent, SerializeDay(ExistingDay(Date16))} :
        files = (DayPath(Date15) :> t15) @@ (DayPath(Date16) :> t16)
                @@ (EventsFile :> EventsText(RetryMap))
                @@ (BackupFile :> Absent) @@ (ZoomFile :> Absent) @@ (DarkFile :> Absent)

NextRetry == MigrateStart \/ MigrateRead \/ MigrateWrite \/ MigrateFinish

SpecRetry == InitRetry /\ [][NextRetry]_vars

\* A migration of one date with save_day_data calls for that date that run
\* between the read and the write of the migration's iteration
RaceMap == (Str15 :> <<"Calendar event 1">>)

InitRace ==
    /\ InitCommon
    /\ \E t15 \in {Absent, SerializeDay(ExistingDay(Date15))} :
       \E t16 \in {Absent, SerializeDay(ExistingDay(Date16))} :
        files = (DayPath(Date15) :> t15) @@ (DayPath(Date16) :> t16)
                @@ (EventsFile :> EventsText(RaceMap))
                @@ (BackupFile :> Absent) @@ (ZoomFile :> Absent) @@ (DarkFile :> Absent)

\* save_day_data for the date whose merged record the migration holds in
\* memory, ready to be written
SaveBeforeWrite ==
    /\ mig.pc = "write"
    /\ \E day_data \in FewSaveInputs :
        /\ DayPath(day_data.date) = DayPath(ParseDate(mig.date_str).date)
        /\ SaveDay(day_data)

NextRace == SaveBeforeWrite \/ MigrateStart \/ MigrateRead \/ MigrateWrite \/ MigrateFinish

SpecRace == InitRace /\ [][NextRace]_vars

\* The pomodoro timer: commands, the passing of time and the spawned tasks
InitTimer ==
    /\ InitCommon
    /\ files = [p \in FileNames |-> Absent]

StartTimerAny ==
    \E duration_minutes \in Minutes : \E task_text \in TaskTexts :
        StartTimer(duration_minutes, task_text)

TimerFireAny == \E t \in tasks.timers : TimerFire(t)

NextTimer == StartTimerAny \/ StopTimer \/ Tick \/ TimerFireAny

SpecTimer == InitTimer /\ [][NextTimer]_vars

\* Time does not stop, and the tokio runtime runs a task whose sleep is over
SpecTimerFair == SpecTimer /\ WF_vars(Tick) /\ WF_vars(TimerFireAny)

---------------------------------------------------------------------------
(* Properties of the day document store, checked under SpecStore *)

ReadFailed == <<"Failed to read file">>

\* C1: a load_day_data of date D that directly follows a successful
\* save_day_data(V) with V.date = D returns Ok with a record equal to V, todos
\* in the same order, for every date string that parses to D (unless the read
\* itself fails with an I/O error).
C1_RoundTrip ==
    [][\A date \in DateInputs :
         ( /\ last.op = "save_day" /\ last.ok
           /\ last'.op = "load_day" /\ last'.arg = date
           /\ ParseDate(date).ok /\ ParseDate(date).date = last.arg.date
           /\ last'.err # ReadFailed
           /\ LoadDay(date) )
         => (last'.ok /\ last'.val = last.arg)]_vars

\* a load returned the two-item record that was saved, its items in the order saved
C1_Witness ==
    /\ last.op = "load_day" /\ last.ok
    /\ last.val = DayData(Date15, <<TodoB, TodoA>>, "Test notes")
    /\ hist.saved[Date15] = <<last.val>>

\* C5: load_day_data of a date that has no file returns Ok with the empty
\* record of that date and changes no file (the file is still absent).
C5_LoadMissing ==
    [][\A date \in DateInputs :
         ( /\ last'.op = "load_day" /\ last'.arg = date
           /\ ParseDate(date).ok
           /\ files[DayPath(ParseDate(date).date)] = Absent
           /\ LoadDay(date) )
         => ( /\ last' = Ok("load_day", date, DayData(ParseDate(date).date, <<>>, ""))
              /\ files'[DayPath(ParseDate(date).date)] = Absent
              /\ files' = files )]_vars

\* a load of a missing day returned the empty record, and the file is still missing
C5_Witness ==
    /\ last = Ok("load_day", Str15Short, DayData(Date15, <<>>, ""))
    /\ files[DayPath(Date15)] = Absent
    /\ files[DayPath(Date16)] # Absent

\* C6: after any sequence of successful saves of a date (with loads and saves
\* of other dates in between), load_day_data of that date returns exactly the
\* record saved last (unless the read itself fails with an I/O error).
C6_LastSaveWins ==
    [][\A date \in DateInputs :
         ( /\ last'.op = "load_day" /\ last'.arg = date
           /\ ParseDate(date).ok
           /\ hist.saved[ParseDate(date).date] # <<>>
           /\ last'.err # ReadFailed
           /\ LoadDay(date) )
         => (last'.ok /\ last'.val = hist.saved[ParseDate(date).date][1])]_vars

\* a load returned the empty record that was saved last over the day's file
C6_Witness ==
    /\ last = Ok("load_day", Str15, DayData(Date15, <<>>, ""))
    /\ hist.saved[Date15] = <<DayData(Date15, <<>>, "")>>
    /\ files[DayPath(Date15)] # Absent

\* C7: when save_day_data fails, the day's file holds what it held before the call.
C7_AllOrNothingSave ==
    [][\A day_data \in SaveInputs :
         (last'.op = "save_day" /\ ~last'.ok /\ SaveDay(day_data))
         => files'[DayPath(day_data.date)] = files[DayPath(day_data.date)]]_vars

---------------------------------------------------------------------------
(* Properties of the migration, checked under Spec *)

\* the last command was a migration that returned "Successfully migrated ..."
MigratedOk == last.op = "migrate" /\ last.ok /\ last.val[1] = "Successfully migrated"

\* the record a day file stands for: the empty record when there is no file
RecordAt(fs, date) ==
    IF fs[DayPath(date)] = Absent THEN [ok |-> TRUE, val |-> DayData(date, <<>>, "")]
    ELSE DeserializeDay(fs[DayPath(date)])

\* the todo was built from `text` by the migration
IsMigratedFrom(todo, text) ==
    /\ todo.text = text /\ ~todo.completed /\ ~todo.move_to_next_day /\ todo.notes = ""

\* the day file of key's date holds one todo per event of `key`, in the list's
\* order, then the todos it held when the migration started, unchanged, and
\* the day's notes are as they were
MergedFor(key) ==
    LET date   == ParseDate(key).date
        events == mig.events[key]
        before == RecordAt(mig.pre, date).val
        after  == RecordAt(files, date)
    IN  /\ after.ok
        /\ Len(after.val.todos) = Len(events) + Len(before.todos)
        /\ \A i \in 1..Len(events) : IsMigratedFrom(after.val.todos[i], events[i])
        /\ \A i \in 1..Len(before.todos) : after.val.todos[Len(events) + i] = before.todos[i]
        /\ after.val.notes = before.notes

\* C2: after a migration returned "Successfully migrated", for every key of
\* the legacy map the day file of the key's date holds [one new todo per event
\* of the key, in list order, not completed, not moved, without notes] followed
\* by [the todos stored before, unchanged], with the day's notes unchanged.
C2_MergeRule == MigratedOk => \A key \in DOMAIN mig.events : MergedFor(key)

RECURSIVE TextsFor(_, _)
\* the events of the keys in `keys` that name `date`, the last key's first
TextsFor(date, keys) ==
    IF keys = <<>> THEN <<>>
    ELSE LET key == keys[Len(keys)]
         IN  (IF ParseDate(key).date = date THEN mig.events[key] ELSE <<>>)
                 \o TextsFor(date, SubSeq(keys, 1, Len(keys) - 1))

\* C2, counted per date: after a migration returned "Successfully migrated", the day
\* file of every key's date holds [one new todo per event of every key that
\* parses to that date: the events of one key together and in list order, those
\* of a key processed later before those of a key processed earlier; each not
\* completed, not moved, without notes] followed by [the todos stored before,
\* unchanged], with the day's notes unchanged.
C2_MergeRuleByDate ==
    MigratedOk =>
        \A key \in DOMAIN mig.events :
            LET date   == ParseDate(key).date
                texts  == TextsFor(date, mig.migrated_dates)
                before == RecordAt(mig.pre, date).val
                after  == RecordAt(files, date)
            IN  /\ after.ok
                /\ Len(after.val.todos) = Len(texts) + Len(before.todos)
                /\ \A i \in 1..Len(texts) : IsMigratedFrom(after.val.todos[i], texts[i])
                /\ \A i \in 1..Len(before.todos) :
                       after.val.todos[Len(texts) + i] = before.todos[i]
                /\ after.val.notes = before.notes

\* two events were merged before the one completed todo of an existing day
C2_Witness ==
    /\ MigratedOk
    /\ DOMAIN mig.events = {Str15}
    /\ RecordAt(files, Date15).ok
    /\ Len(RecordAt(files, Date15).val.todos) = 3
    /\ RecordAt(files, Date15).val.todos[1].text = "Calendar event 1"
    /\ RecordAt(files, Date15).val.todos[2].text = "Calendar event 2"
    /\ RecordAt(files, Date15).val.todos[3] = TodoA
    /\ RecordAt(files, Date15).val.notes = "Existing notes"

\* no two keys of the running or returned migration's map name the same date
NoSharedDate ==
    \A k1, k2 \in DOMAIN mig.events :
        (ParseDate(k1).ok /\ ParseDate(k2).ok /\ ParseDate(k1).date = ParseDate(k2).date)
        => k1 = k2

\* the merge rule for maps whose keys name different dates
MergeRuleDistinctDates == (MigratedOk /\ NoSharedDate) => \A key \in DOMAIN mig.events : MergedFor(key)

MigratedOutcomes == {MsgMigrated(c, n) : c \in 0..MaxIds, n \in 0..MaxIds}

\* C3: once a migration has returned success ("migrated N" or "empty, backed
\* up"), every later invocation returns "migration not needed" and changes no
\* file: no day file, not the backup.
C3_IdempotentByAbsence ==
    [][( /\ hist.migrated
         /\ last'.op = "migrate" /\ mig.pc = "idle"
         /\ MigrateStart )
       => (last' = Ok("migrate", <<>>, MsgNotNeeded) /\ files' = files)]_vars

\* a migration was invoked again after one that had merged events into a day
C3_Witness ==
    /\ hist.migrated
    /\ last = Ok("migrate", <<>>, MsgNotNeeded)
    /\ files[BackupFile] = EventsText((Str15 :> <<"Calendar event 1", "Calendar event 2">>))
    /\ files[EventsFile] = Absent

\* C4: in a migration over a non-empty map the legacy file goes away only in
\* a step taken when the day file of every key has been written; and when the
\* migration has returned "Successfully migrated" the legacy file does not
\* exist and the backup holds what the legacy file held, whatever backup
\* existed before.
C4_RetireAfterMerge ==
    /\ [][( /\ DOMAIN mig.events # {}
            /\ files[EventsFile] # Absent
            /\ files'[EventsFile] = Absent )
          => ( /\ mig.pc = "loop"
               /\ mig.remaining = {}
               /\ \A key \in DOMAIN mig.events :
                     \E i \in 1..Len(mig.migrated_dates) : mig.migrated_dates[i] = key
               /\ files'[BackupFile] = files[EventsFile] )]_vars
    /\ [](MigratedOk =>
            ( /\ files[EventsFile] = Absent
              /\ mig.pre[EventsFile] # Absent
              /\ files[BackupFile] = mig.pre[EventsFile] ))

\* a two-day migration returned success and replaced an older backup
C4_Witness ==
    /\ MigratedOk
    /\ Len(mig.migrated_dates) = 2
    /\ mig.pre[BackupFile] # Absent
    /\ mig.pre[BackupFile] # mig.pre[EventsFile]
    /\ files[BackupFile] = mig.pre[EventsFile]

AbortErrors ==
    {"Invalid date format in calendar events", "Failed to read day file",
     "Failed to parse day data", "Failed to write day file"}

\* the keys whose iteration has started, the failing one included
Started == DOMAIN mig'.events \ mig'.remaining

\* C8: when the loop aborts on a key (its date does not parse, its day file
\* cannot be read or parsed, or cannot be written) the migration returns that
\* error; the legacy file and the backup are as they were at the start; the day
\* files of the keys merged earlier in the run are as the run left them; the
\* day files of dates no started key names are as they were at the start.
C8_AbortSemantics ==
    [][( /\ mig.pc \in {"loop", "write"}
         /\ mig'.pc = "idle"
         /\ ~last'.ok /\ last'.err[1] \in AbortErrors )
       => ( /\ last'.op = "migrate"
            /\ files'[EventsFile] = mig.pre[EventsFile]
            /\ files'[BackupFile] = mig.pre[BackupFile]
            /\ \A i \in 1..Len(mig.migrated_dates) :
                  LET path == DayPath(ParseDate(mig.migrated_dates[i]).date)
                  IN  files'[path] = files[path]
            /\ \A date \in Dates :
                  (\A key \in Started : ParseDate(key).date # date)
                  => files'[DayPath(date)] = mig.pre[DayPath(date)] )]_vars

\* C9: a migration invoked while calendar_events.json is absent returns
\* "migration not needed", which is neither of the other outcomes, and changes
\* no file.
C9_NoLegacyFile ==
    [][( /\ files[EventsFile] = Absent
         /\ last'.op = "migrate" /\ mig.pc = "idle"
         /\ MigrateStart )
       => ( /\ last' = Ok("migrate", <<>>, MsgNotNeeded)
            /\ last'.val \notin ({MsgEmpty} \cup MigratedOutcomes)
            /\ files' = files )]_vars

\* a migration was invoked in a directory that never held a legacy file or a backup
C9_Witness ==
    /\ last = Ok("migrate", <<>>, MsgNotNeeded)
    /\ ~hist.migrated
    /\ files[EventsFile] = Absent
    /\ files[BackupFile] = Absent

BackupErrors ==
    {"Failed to read calendar events file", "Failed to backup empty calendar events file"}

\* C10: a migration invoked on a legacy file that holds the empty map either
\* fails on the read or the rename with that I/O error and changes nothing, or
\* returns "empty, backed up", which is neither of the other outcomes; then the
\* backup holds the legacy file's content, the legacy file is gone and every
\* day file is as it was.
C10_EmptyMapRetired ==
    [][( /\ DeserializeEvents(files[EventsFile]).ok
         /\ DOMAIN DeserializeEvents(files[EventsFile]).val = {}
         /\ last'.op = "migrate" /\ mig.pc = "idle"
         /\ MigrateStart )
       => \/ (~last'.ok /\ last'.err[1] \in BackupErrors /\ files' = files)
          \/ ( /\ last' = Ok("migrate", <<>>, MsgEmpty)
               /\ last'.val \notin ({MsgNotNeeded} \cup MigratedOutcomes)
               /\ files'[BackupFile] # Absent
               /\ files'[BackupFile] = files[EventsFile]
               /\ files'[EventsFile] = Absent
               /\ \A date \in Dates : files'[DayPath(date)] = files[DayPath(date)] )]_vars

\* the empty legacy file was retired over an older backup, beside an existing day
C10_Witness ==
    /\ last = Ok("migrate", <<>>, MsgEmpty)
    /\ files[EventsFile] = Absent
    /\ files[BackupFile] = EventsText(<<>>)
    /\ files[DayPath(Date15)] = SerializeDay(ExistingDay(Date15))

\* the number of todos the day files hold more than at the start of the run
AddedTodos ==
    LET RECURSIVE Sum(_)
        Sum(ds) == IF ds = {} THEN 0
                   ELSE LET d == CHOOSE x \in ds : TRUE
                        IN  Len(RecordAt(files, d).val.todos)
                              - Len(RecordAt(mig.pre, d).val.todos) + Sum(ds \ {d})
    IN  Sum(Dates)

\* the calendar dates the keys of the migrated map name
DatesTouched == {ParseDate(key).date : key \in DOMAIN mig.events}

\* C11: a migration that returned "Successfully migrated" reports (a) a count
\* equal to the number of event texts over all keys, which is the number of
\* todos added to day files, and (b) a day count equal to the number of
\* distinct calendar dates whose day file was written.
C11_ReportedCounts ==
    MigratedOk =>
        /\ last.val = MsgMigrated(TotalEvents(mig.events), Cardinality(DatesTouched))
        /\ AddedTodos = TotalEvents(mig.events)

\* the reported counts are right whenever no two keys name the same date
ReportedCountsDistinctDates == (MigratedOk /\ NoSharedDate) => C11_ReportedCounts

\* C12: a migration invoked on a calendar_events.json that is not a map from
\* date key to list of event texts fails with "Failed to parse calendar
\* events" (or with the I/O error of the read) and changes no file: the legacy
\* file keeps its content, no backup is made, no day file is touched.
C12_CorruptLegacy ==
    [][( /\ files[EventsFile] \in CorruptEventsTexts
         /\ last'.op = "migrate" /\ mig.pc = "idle"
         /\ MigrateStart )
       => ( /\ ~last'.ok
            /\ last'.err \in {<<"Failed to parse calendar events">>,
                              <<"Failed to read calendar events file">>}
            /\ mig'.pc = "idle"
            /\ files' = files )]_vars

\* a migration failed on a legacy file whose value is not a list, beside an existing day
C12_Witness ==
    /\ last = Err("migrate", <<>>, <<"Failed to parse calendar events">>)
    /\ files[EventsFile] = JsonText(JObj((Str15 :> JStr("Not a list"))))
    /\ files[BackupFile] = Absent
    /\ files[DayPath(Date15)] = SerializeDay(ExistingDay(Date15))

---------------------------------------------------------------------------
(* Properties of the failing loads, checked under SpecStore *)

\* a string of the form YYYY-MM-DD, four, two and two digits, that names a day
\* of the calendar
IsYMD(s) ==
    /\ Len(s) = 10
    /\ s[5] = "-" /\ s[8] = "-"
    /\ \A i \in {1, 2, 3, 4, 6, 7, 9, 10} : IsDigit(s[i])
    /\ NumVal(SubSeq(s, 6, 7)) \in 1..12
    /\ NumVal(SubSeq(s, 9, 10))
          \in 1..DaysInMonth(NumVal(SubSeq(s, 1, 4)), NumVal(SubSeq(s, 6, 7)))

\* C13: load_day_data with a date string that is not a valid YYYY-MM-DD date
\* fails with "Invalid date format", returns no record and changes no file,
\* whatever the directory holds.
C13_InvalidDateRejected ==
    [][\A date \in DateInputs :
         ( /\ last'.op = "load_day" /\ last'.arg = date
           /\ ~IsYMD(date)
           /\ LoadDay(date) )
         => ( /\ last' = Err("load_day", date, <<"Invalid date format">>)
              /\ files' = files )]_vars

\* the strings the library's parse rejects are refused and change no file
UnparsedDateRejected ==
    [][\A date \in DateInputs :
         ( /\ last'.op = "load_day" /\ last'.arg = date
           /\ ~ParseDate(date).ok
           /\ LoadDay(date) )
         => ( /\ last' = Err("load_day", date, <<"Invalid date format">>)
              /\ files' = files )]_vars

\* C14: load_day_data of a date whose file exists and is not a serialized
\* DayData fails with "Failed to parse JSON" (or with the I/O error of the
\* read); it never returns a record, the empty one included, and it leaves the
\* file, and every other file, as it was.
C14_CorruptDayFile ==
    [][\A date \in DateInputs :
         ( /\ last'.op = "load_day" /\ last'.arg = date
           /\ ParseDate(date).ok
           /\ files[DayPath(ParseDate(date).date)] \in CorruptDayTexts(ParseDate(date).date)
           /\ LoadDay(date) )
         => ( /\ ~last'.ok
              /\ last'.err \in {<<"Failed to parse JSON">>, ReadFailed}
              /\ files' = files )]_vars

\* a load failed on a day file that is JSON without the day's notes
C14_Witness ==
    /\ last = Err("load_day", Str15, <<"Failed to parse JSON">>)
    /\ files[DayPath(Date15)] = MissingNotesText(Date15)

---------------------------------------------------------------------------
(* Properties of the preference store, checked under SpecPrefs *)

ZoomReadFailed == <<"Failed to read zoom preference file">>
ZoomParseFailed == <<"Failed to parse zoom preference">>
DarkReadFailed == <<"Failed to read dark mode preference file">>
DarkParseFailed == <<"Failed to parse dark mode preference">>

\* JSON texts without a usable zoom: 10.0, a string, no zoom_level, a list
UnusableZoomJson ==
    {SerializeZoom(F64(100)),
     JsonText(JObj([zoom_level |-> JStr("large")])),
     JsonText(JObj([zoom |-> JNum(<<"2", ".", "0">>)])),
     JsonText(JArr(<<>>))}

ShapelessDarkJson ==
    {JsonText(JObj([dark_mode |-> JStr("yes")])),
     JsonText(JObj([theme |-> JStr("dark")])),
     JsonText(JArr(<<>>))}

C17_NonFiniteRejected ==
    [][\A z \in {NaN, PosInf, NegInf} :
         ( /\ last'.op = "save_zoom" /\ last'.arg = z
           /\ SaveZoom(z) )
         => ( /\ ~last'.ok /\ last'.err = <<"Invalid zoom level">>
              /\ files' = files
              /\ \A outcome \in ReadOutcomes :
                    LoadZoomResult(files', outcome) = LoadZoomResult(files, outcome) )]_vars

\* an infinity was refused while the file held 1.5
C17_Witness ==
    /\ last.op = "save_zoom" /\ last.arg = PosInf
    /\ ~last.ok /\ last.err = <<"Invalid zoom level">>
    /\ files[ZoomFile] = SerializeZoom(F64(15))

C19_ZoomRange ==
    /\ [][( /\ last'.op = "save_zoom"
            /\ files'[ZoomFile] # files[ZoomFile]
            /\ files'[ZoomFile] # Truncated )
          => ( /\ files'[ZoomFile].kind = "json"
               /\ DOMAIN files'[ZoomFile].val.v = {"zoom_level"}
               /\ files'[ZoomFile].val.v["zoom_level"].t = "num"
               /\ ParseF64(files'[ZoomFile].val.v["zoom_level"].v) \in 5..30 )]_vars
    /\ []( (last.op = "load_zoom" /\ last.ok)
             => (last.val.kind = "finite" /\ last.val.v \in 5..30) )
    /\ []( last.op = "get_zoom_limits"
             => last.val = [min_zoom |-> F64(5), max_zoom |-> F64(30)] )

\* 10.0 was saved and 3.0 was read back
C19_Witness ==
    /\ hist.zoom = <<F64(100)>>
    /\ (last.op = "load_zoom" /\ last.ok /\ last.val = F64(30))

\* C20: load_dark_mode returns false without error while dark_mode.json is
\* absent; after successful save_dark_mode calls it returns the value of the
\* last one, true or false (the I/O failure of the read aside).
C20_DarkModeLastSaved ==
    /\ [][( /\ files[DarkFile] = Absent
            /\ last'.op = "load_dark_mode"
            /\ LoadDarkMode )
          => (last'.ok /\ last'.val = Bool(FALSE))]_vars
    /\ [][( /\ hist.dark # <<>>
            /\ last'.op = "load_dark_mode" /\ last'.err # DarkReadFailed
         /\ LoadDarkMode )
          => (last'.ok /\ last'.val = Bool(hist.dark[1]))]_vars

\* false was saved over a stored true and read back
C20_Witness ==
    /\ hist.dark = <<FALSE>>
    /\ (last.op = "load_dark_mode" /\ last.ok /\ last.val = Bool(FALSE))
    /\ files[DarkFile] = SerializeDarkMode(FALSE)

---------------------------------------------------------------------------
(* Saves running side by side, checked under SpecTwoSaves *)

BothSaved == \A c \in Callers : tasks.saves[c].pc = "ok"

\* C21: once two save_day_data calls for the same date, running side by side,
\* have both returned Ok, the day file holds exactly the record of one of them
\* (no mixture, no partial record) and load_day_data returns that record.
C21_OneOfTheTwo ==
    BothSaved =>
        \E c \in Callers :
            /\ files[DayPath(Date15)] = SerializeDay(tasks.saves[c].day_data)
            /\ LoadResult(files, Str15, "read").ok
            /\ LoadResult(files, Str15, "read").val = tasks.saves[c].day_data

\* two saves have returned Ok and the file holds the bytes of both
MixedAfterTwoSaves == BothSaved /\ files[DayPath(Date15)] = Mixed

\* when the later write_all is the longer one, the file holds its record
LongerWriteLastWins ==
    [][\A c \in Callers :
        ( /\ tasks.saves[c].pc = "opened" /\ tasks'.saves[c].pc = "ok"
          /\ files[DayPath(Date15)].kind = "json"
          /\ TextSize(files[DayPath(Date15)]) <= TextSize(SerializeDay(tasks.saves[c].day_data)) )
        => files'[DayPath(Date15)] = SerializeDay(tasks.saves[c].day_data)]_vars

---------------------------------------------------------------------------
(* Keying of the day files, checked under Spec *)

\* the day file of `date` holds no record (no file, or a file cut short by a
\* failed write) or it holds a record dated `date`
KeyedByDate(fs, date) ==
    \/ fs[DayPath(date)] \in {Absent, Truncated}
    \/ /\ DeserializeDay(fs[DayPath(date)]).ok
       /\ DeserializeDay(fs[DayPath(date)]).val.date = date

\* C22: from a directory whose day files each hold a record of their own
\* date, every state reached by save_day_data and migration calls keeps it so:
\* the file <D>.json is the one file of date D and the record stored in it is
\* dated D; and no step removes a day file.
C22_OneRecordPerDate ==
    /\ [](\A date \in Dates : KeyedByDate(files, date))
    /\ [][\A date \in Dates :
            Exists(files, DayPath(date)) => Exists(files', DayPath(date))]_vars

C22_Witness ==
    /\ MigratedOk
    /\ hist.saved[Date16] # <<>>
    /\ files[DayPath(Date16)] = SerializeDay(hist.saved[Date16][1])
    /\ DeserializeDay(files[DayPath(Date15)]).ok
    /\ DeserializeDay(files[DayPath(Date15)]).val.date = Date15
    /\ Len(DeserializeDay(files[DayPath(Date15)]).val.todos) > 1

---------------------------------------------------------------------------
(* Todo items and the schema of stored ones, checked under SpecItems *)

\* the ids of the todos the day files hold
IdsIn(fs) ==
    UNION {{RecordAt(fs, date).val.todos[i].id :
                i \in 1..Len(RecordAt(fs, date).val.todos)} : date \in Dates}

\* C23: create_todo_item(text) succeeds for every text, the empty one
\* included, and returns an item with that text, not completed, not to be
\* moved to the next day, with empty notes, whose id is the id of no item an
\* earlier create_todo_item returned and of no item in a day file (the items
\* the migration created among them); and the items the migration creates
\* have ids no create_todo_item has returned.
C23_CreateTodo ==
    [][/\ \A text \in TodoTexts :
            (last'.op = "create_todo_item" /\ last'.arg = text /\ CreateTodoItem(text))
            => ( /\ last'.ok
                 /\ last'.val.text = text
                 /\ ~last'.val.completed
                 /\ ~last'.val.move_to_next_day
                 /\ last'.val.notes = ""
                 /\ last'.val.id \notin (hist.created \cup IdsIn(files)) )
       /\ (mig.pc = "loop" /\ mig'.pc = "write")
            => \A i \in 1..Len(mig.events[mig'.date_str]) :
                    mig'.day_data.todos[i].id \notin (hist.created \cup IdsIn(files))]_vars

\* an item with empty text was created after the migration had created one
C23_Witness ==
    /\ last.op = "create_todo_item" /\ last.ok
    /\ last.arg = "" /\ last.val.text = ""
    /\ hist.migrated
    /\ \E i \in 1..Len(RecordAt(files, Date15).val.todos) :
            /\ IsMigratedFrom(RecordAt(files, Date15).val.todos[i], "Calendar event 1")
            /\ RecordAt(files, Date15).val.todos[i].id # last.val.id
    /\ Cardinality(hist.created) = 1

\* the item of OldSchemaText as it is read: notes empty, the rest as stored
OldTodo == TodoItem(3, "Old todo", TRUE, 0, FALSE, "")

\* C24: a stored day record whose todo items have no `notes` field loads
\* through load_day_data with those items' notes empty and every other field
\* kept (a failed read of the file aside), and the migration merges it: its
\* items follow the migrated ones, notes empty, and the migration never
\* reports 'Failed to parse day data' for it.
C24_OldSchemaLoads ==
    /\ [][( /\ files[DayPath(Date15)] = OldSchemaText(Date15)
            /\ last'.op = "load_day"
            /\ LoadDay(Str15) )
          => \/ (last'.ok /\ last'.val = DayData(Date15, <<OldTodo>>, "Old notes"))
             \/ (~last'.ok /\ last'.err = ReadFailed)]_vars
    /\ []( ( /\ last.op = "migrate"
             /\ mig.pre # <<>>
             /\ mig.pre[DayPath(Date15)] = OldSchemaText(Date15) )
           => /\ last.err # <<"Failed to parse day data">>
              /\ MigratedOk =>
                    /\ RecordAt(files, Date15).ok
                    /\ RecordAt(files, Date15).val.date = Date15
                    /\ RecordAt(files, Date15).val.notes = "Old notes"
                    /\ Len(RecordAt(files, Date15).val.todos) = 2
                    /\ IsMigratedFrom(RecordAt(files, Date15).val.todos[1], "Calendar event 1")
                    /\ RecordAt(files, Date15).val.todos[2] = OldTodo )

\* the old record was merged by the migration and then loaded
C24_Witness ==
    /\ last.op = "load_day" /\ last.ok
    /\ hist.migrated
    /\ Len(last.val.todos) = 2
    /\ last.val.todos[2] = OldTodo
    /\ files[BackupFile] # Absent

---------------------------------------------------------------------------
(* The migration across invocations, checked under SpecRetry *)

\* how many todos of the list were built from the event `text`
MigratedCopies(todos, text) ==
    Cardinality({i \in 1..Len(todos) : IsMigratedFrom(todos[i], text)})

\* C25: whatever migration invocations came before, failed ones that were
\* retried included, once an invocation has returned "migrated N" the day
\* file of every key's date holds each event of that key as one migrated
\* todo: none is missing and none is there twice.
C25_ConvertedOnce ==
    MigratedOk =>
        \A key \in DOMAIN mig.events : \A i \in 1..Len(mig.events[key]) :
            /\ RecordAt(files, ParseDate(key).date).ok
            /\ MigratedCopies(RecordAt(files, ParseDate(key).date).val.todos,
                              mig.events[key][i]) = 1

\* an invocation that follows no failed one converts each event once
FirstRunConvertsOnce ==
    (MigratedOk /\ nextId = 3 + TotalEvents(mig.events)) =>
        \A key \in DOMAIN mig.events : \A i \in 1..Len(mig.events[key]) :
            MigratedCopies(RecordAt(files, ParseDate(key).date).val.todos,
                           mig.events[key][i]) = 1

---------------------------------------------------------------------------
(* What the commands leave alone *)

\* C26: a save_day_data(V) that returns Ok leaves the file of V.date holding
\* V, for an empty V as for any other, whether or not the file existed, and
\* leaves every other file as it was: the other day files, the legacy file,
\* its backup and both preference files.  Checked under SpecStore.
C26_SaveFrame ==
    [][(last'.op = "save_day" /\ last'.ok)
       => /\ files'[DayPath(last'.arg.date)] = SerializeDay(last'.arg)
          /\ \A p \in FileNames \ {DayPath(last'.arg.date)} : files'[p] = files[p]]_vars

\* the empty record of one date was saved next to the files of the directory
C26_Witness ==
    /\ last = Ok("save_day", DayData(Date15, <<>>, ""), <<>>)
    /\ files[DayPath(Date15)] = SerializeDay(DayData(Date15, <<>>, ""))
    /\ files[DayPath(Date16)] = SerializeDay(ExistingDay(Date16))
    /\ Exists(files, EventsFile)
    /\ Exists(files, DarkFile)

\* the dates named by the keys of the legacy map a migration step works on
KeyDates ==
    LET events == IF mig.pc = "idle"
                  THEN IF DeserializeEvents(files[EventsFile]).ok
                       THEN DeserializeEvents(files[EventsFile]).val ELSE <<>>
                  ELSE mig.events
    IN  {ParseDate(key).date : key \in {k \in DOMAIN events : ParseDate(k).ok}}

\* the step is one of migrate_calendar_events_to_todos
MigrationStep ==
    mig.pc # "idle" \/ mig'.pc # "idle" \/ last'.op = "migrate"

\* C27: a step of a migration invocation, one that succeeds or one that
\* aborts, changes no day file but those of dates named by keys of the legacy
\* map, changes neither preference file, and changes the legacy file and its
\* backup only by the rename.  Checked under Spec.
C27_MigrationFrame ==
    [][MigrationStep
       => /\ \A date \in Dates \ KeyDates : files'[DayPath(date)] = files[DayPath(date)]
          /\ files'[ZoomFile] = files[ZoomFile]
          /\ files'[DarkFile] = files[DarkFile]
          /\ \/ /\ files'[EventsFile] = files[EventsFile]
                /\ files'[BackupFile] = files[BackupFile]
             \/ /\ files'[EventsFile] = Absent
                /\ files'[BackupFile] = files[EventsFile]]_vars

\* a migration of one date has returned next to a day file of another date
\* and a dark-mode preference, both as they were
C27_Witness ==
    /\ MigratedOk
    /\ DOMAIN mig.events = {Str15}
    /\ files[DayPath(Date15)] # mig.pre[DayPath(Date15)]
    /\ files[DayPath(Date16)] = SerializeDay(ExistingDay(Date16))
    /\ files[DayPath(Date16)] = mig.pre[DayPath(Date16)]
    /\ Exists(files, DarkFile) /\ files[DarkFile] = mig.pre[DarkFile]

---------------------------------------------------------------------------
(* A save inside the migration's read-write window, checked under SpecRace *)

\* C28: the migration takes no lock.  When a save_day_data(V) for date D has
\* returned Ok between the migration's read of D's file and its write, the
\* file holds V until the migration writes; after that write it holds the
\* migrated events followed by the todos the migration had read, with the
\* notes it had read: what V changed is gone.
C28_LostUpdate ==
    [][( /\ mig.pc = "write" /\ mig'.pc = "loop"
         /\ last.op = "save_day" /\ last.ok )
       => LET date   == ParseDate(mig.date_str).date
              events == mig.events[mig.date_str]
              read   == RecordAt(mig.pre, date).val
              after  == RecordAt(files', date)
          IN  /\ last.arg.date = date
              /\ files[DayPath(date)] = SerializeDay(last.arg)
              /\ after.ok
              /\ Len(after.val.todos) = Len(events) + Len(read.todos)
              /\ \A i \in 1..Len(events) : IsMigratedFrom(after.val.todos[i], events[i])
              /\ \A i \in 1..Len(read.todos) :
                    after.val.todos[Len(events) + i] = read.todos[i]
              /\ after.val.notes = read.notes
              /\ (read # last.arg => files'[DayPath(date)] # SerializeDay(
                        Merge(last.arg, SubSeq(after.val.todos, 1, Len(events)))))]_vars

\* the lost update: the save returned Ok during the migration, and the file
\* holds the migrated event and the todo read before the save, not the saved one
C28_Witness ==
    /\ last = Ok("save_day", DayData(Date15, <<TodoB>>, "Saved notes"), <<>>)
    /\ mig.pc = "loop"
    /\ mig.migrated_dates = <<Str15>>
    /\ mig.pre[DayPath(Date15)] = SerializeDay(ExistingDay(Date15))
    /\ RecordAt(files, Date15).ok
    /\ Len(RecordAt(files, Date15).val.todos) = 2
    /\ IsMigratedFrom(RecordAt(files, Date15).val.todos[1], "Calendar event 1")
    /\ RecordAt(files, Date15).val.todos[2] = TodoA
    /\ RecordAt(files, Date15).val.notes = "Existing notes"

---------------------------------------------------------------------------
(* The pomodoro timer, checked under SpecTimer and SpecTimerFair *)

\* the ids of the timers whose task has called window.emit
Fired == {tasks.emits[i].id : i \in 1..Len(tasks.emits)}

\* C29: once stop_pomodoro_timer has returned Ok, a timer that was started
\* before and had not elapsed then does not emit "pomodoro-complete".
C29_StopSilences ==
    [][\A i \in 1..Len(tasks'.emits) :
        (i > Len(tasks.emits) /\ tasks'.emits[i].ok)
        => tasks'.emits[i].id \notin hist.stopped]_vars

\* a timer emitted its event after a stop that found it sleeping
EmittedAfterStop ==
    \E i \in 1..Len(tasks.emits) : tasks.emits[i].ok /\ tasks.emits[i].id \in hist.stopped

\* C30: start_pomodoro_timer returns Ok at once, the timer it started still
\* pending with its whole delay ahead; each started timer's task calls
\* window.emit with the timer's task text, once, and not before its delay has
\* passed, and eventually does so; a failed emit changes no command's result,
\* and start_pomodoro_timer never returns an error.
C30_TimerFires ==
    /\ [][\A duration_minutes \in Minutes : \A task_text \in TaskTexts :
            ( /\ last'.op = "start_pomodoro_timer"
              /\ last'.arg = [duration_minutes |-> duration_minutes, task_text |-> task_text]
              /\ Cardinality(tasks'.timers) > Cardinality(tasks.timers) )
            => /\ last'.ok
               /\ \E t \in tasks'.timers \ tasks.timers :
                    /\ t.task_text = task_text
                    /\ t.remaining = duration_minutes
                    /\ t.id \notin Fired
                    /\ tasks'.timers = tasks.timers \cup {t}
               /\ tasks'.emits = tasks.emits]_vars
    /\ [][Len(tasks'.emits) > Len(tasks.emits)
            => /\ Len(tasks'.emits) = Len(tasks.emits) + 1
               /\ SubSeq(tasks'.emits, 1, Len(tasks.emits)) = tasks.emits
               /\ \E t \in tasks.timers :
                    /\ t.remaining = 0
                    /\ tasks'.emits[Len(tasks'.emits)].id = t.id
                    /\ tasks'.emits[Len(tasks'.emits)].payload = t.task_text
                    /\ t.id \notin Fired
               /\ last' = last]_vars
    /\ [](\A i, j \in 1..Len(tasks.emits) : tasks.emits[i].id = tasks.emits[j].id => i = j)
    /\ []~(last.op = "start_pomodoro_timer" /\ ~last.ok)
    /\ \A id \in 1..MaxTimers :
            (\E t \in tasks.timers : t.id = id) ~> (id \in Fired)

\* two timers have run out: the emit of one arrived, that of the other
\* failed, and the last command to return is still the Ok of a start
C30_Witness ==
    /\ Len(tasks.emits) = 2
    /\ tasks.emits[1].ok /\ ~tasks.emits[2].ok
    /\ tasks.emits[1].payload = "Write report"
    /\ tasks.timers = {}
    /\ last.op = "start_pomodoro_timer" /\ last.ok
    /\ last.arg.duration_minutes = MaxMinutes

====
